---- MODULE Spec2Model ----
(***************************************************************************)
(* Event / recipe REST backend (phinshen/event-recipe-API).                *)
(*                                                                         *)
(* The repository holds several iterations of the same Express app.  The   *)
(* variable `version` names the iteration that is deployed:                *)
(*   "part_002" : src/unnamed/part_002 (json_agg reads, no validation)     *)
(*   "part_001" : part_002 with POST /events/:id/recipes replaced by       *)
(*                src/unnamed/part_001 ("rest of your existing routes")    *)
(*   "server"   : src/server.js lines 224-716                              *)
(*   "part_000" : server with POST /events/:id/recipes replaced by         *)
(*                src/unnamed/part_000 (it calls getEventWithRecipes)      *)
(*                                                                         *)
(* The relational store is the variable `db`.  What the SQL schema decides *)
(* (column type of recipes.recipe_data, NOT NULL on events.name/date, a    *)
(* unique index on recipes(event_id, meal_id)) is not in the sources and   *)
(* is chosen in Init.                                                      *)
(*                                                                         *)
(* Event columns description, location, image_url and created_at are       *)
(* copied through by every handler, guard nothing, and are left out.       *)
(* A JSON array whose elements are distinct rows is modelled as the set of *)
(* its elements: the order of a response array is not modelled.            *)
(***************************************************************************)
EXTENDS Integers, Sequences, FiniteSets, TLC

VARIABLES
    env,    \* the deployment: [version, helper, sidecarColumn, notNull,
            \* uniqueIndex]
            \*   version       : the deployed iteration
            \*   helper        : which of the two declarations of
            \*                   getEventWithRecipes in src/server.js is bound
            \*   sidecarColumn : "jsonb" or "text", the declared type of
            \*                   recipes.recipe_data
            \*   notNull       : the required columns (events.name,
            \*                   events.date, recipes.meal_id, recipes.title)
            \*                   are declared NOT NULL
            \*   uniqueIndex   : recipes has UNIQUE (event_id, meal_id)
    db,     \* the store: [events, recipes, nextEventId, nextRecipeId]
    last,   \* the request handled last and its response
    recon,  \* SpecRecon: a recipe row as read from the store, and what each
            \* read path reconstructs from it
    inflight \* SpecConc: per client, the add-recipe request it has in
            \* flight and the await the handler is suspended at

vars == <<env, db, last, recon, inflight>>

(***************************************************************************)
(* Bounds.                                                                 *)
(***************************************************************************)
MaxEventId == 2
MaxRecipeId == 2
MaxRows == 4
MaxConcEventId == 1

(***************************************************************************)
(* JavaScript values.  Strings are TLA+ strings; null, undefined and false *)
(* are reserved strings; objects are records.                              *)
(***************************************************************************)
NULL == "<null>"
UNDEFINED == "<undefined>"
JsFalse == "<false>"

Truthy(v) == v \notin {NULL, UNDEFINED, JsFalse, ""}

\* a || b
Or(a, b) == IF Truthy(a) THEN a ELSE b

\* o[k] on an object: undefined when the key is missing
Get(o, k) == IF k \in DOMAIN o THEN o[k] ELSE UNDEFINED

\* node-postgres sends undefined as NULL
SqlParam(v) == IF v = UNDEFINED THEN NULL ELSE v

Versions == {"part_002", "part_001", "part_000", "server"}

\* iterations whose event routes are those of part_002
OldRoutes == {"part_002", "part_001"}

Users == {"u1", "u2"}
EventIds == 1..MaxEventId
Names == {UNDEFINED, "Party", "Dinner"}
Dates == {UNDEFINED, "2025-06-01"}

(***************************************************************************)
(* Responses.                                                              *)
(***************************************************************************)
Response(status, body, queries) ==
    [status |-> status, body |-> body, queries |-> queries]

ErrorBody(msg) == [error |-> msg]

(***************************************************************************)
(* SQL statements on the events table.                                     *)
(***************************************************************************)
\* SELECT ... FROM events WHERE user_id = $1
SelectEventsByUser(d, userId) == {e \in d.events : e.user_id = userId}

\* SELECT id FROM events WHERE id = $1 AND user_id = $2
SelectEventByIdAndUser(d, id, userId) ==
    {e \in d.events : e.id = id /\ e.user_id = userId}

\* NOT NULL on events.name and events.date
ViolatesNotNull(nn, name, date) == nn /\ (name = NULL \/ date = NULL)

\* INSERT INTO events (user_id, name, date, ...) VALUES (...) RETURNING *
\* The serial id is drawn before the row is checked.
InsertEvent(d, nn, userId, name, date) ==
    LET row == [id |-> d.nextEventId, user_id |-> userId,
                name |-> SqlParam(name), date |-> SqlParam(date)]
        drawn == [d EXCEPT !.nextEventId = @ + 1]
    IN  IF ViolatesNotNull(nn, row.name, row.date)
        THEN [err |-> "23502", rows |-> {}, db |-> drawn]
        ELSE [err |-> NULL, rows |-> {row},
              db |-> [drawn EXCEPT !.events = @ \cup {row}]]

\* UpdateEvent without "AND user_id = $4"
UpdateEventAnyUser(d, nn, name, date, id, userId) ==
    LET hit == {e \in d.events : e.id = id}
        new == {[e EXCEPT !.name = SqlParam(name), !.date = SqlParam(date)]
                  : e \in hit}
    IN  IF hit # {} /\ ViolatesNotNull(nn, SqlParam(name), SqlParam(date))
        THEN [err |-> "23502", rows |-> {}, db |-> d]
        ELSE [err |-> NULL, rows |-> new,
              db |-> [d EXCEPT !.events = (@ \ hit) \cup new]]

\* UPDATE events SET name = $1, date = $2 WHERE id = $3 AND user_id = $4
\* RETURNING *
UpdateEvent(d, nn, name, date, id, userId) ==
    LET hit == SelectEventByIdAndUser(d, id, userId)
        new == {[e EXCEPT !.name = SqlParam(name), !.date = SqlParam(date)]
                  : e \in hit}
    IN  IF hit # {} /\ ViolatesNotNull(nn, SqlParam(name), SqlParam(date))
        THEN [err |-> "23502", rows |-> {}, db |-> d]
        ELSE [err |-> NULL, rows |-> new,
              db |-> [d EXCEPT !.events = (@ \ hit) \cup new]]

\* ON DELETE CASCADE of recipes.event_id
CascadeRecipes(recipes, gone) == {r \in recipes : r.event_id \notin gone}

\* DeleteEvent on a recipes table whose event_id does not cascade
DeleteEventKeepRecipes(d, id, userId) ==
    LET hit == SelectEventByIdAndUser(d, id, userId)
        gone == {e.id : e \in hit}
    IN  [err |-> NULL, rows |-> gone, db |-> [d EXCEPT !.events = @ \ hit]]

\* DELETE FROM events WHERE id = $1 AND user_id = $2 RETURNING id
DeleteEvent(d, id, userId) ==
    LET hit == SelectEventByIdAndUser(d, id, userId)
        gone == {e.id : e \in hit}
    IN  [err |-> NULL, rows |-> gone,
         db |-> [d EXCEPT !.events = @ \ hit,
                          !.recipes = CascadeRecipes(@, gone)]]

(***************************************************************************)
(* Event views sent to the client.                                         *)
(***************************************************************************)
\* { id, title: name, name, date, ..., recipes }
EventView(e, recipes) ==
    [id |-> e.id, title |-> e.name, name |-> e.name, date |-> e.date,
     recipes |-> recipes]

\* PUT /events/:id answers without a recipes field
EventViewNoRecipes(e) ==
    [id |-> e.id, title |-> e.name, name |-> e.name, date |-> e.date]

(***************************************************************************)
(* POST /events                                                            *)
(***************************************************************************)
\* src/server.js
CreateEventServer(d, nn, userId, name, date) ==
    IF ~Truthy(name) \/ ~Truthy(date)
    THEN [db |-> d,
          res |-> Response(400, ErrorBody("Name and date are required"), 0)]
    ELSE LET q == InsertEvent(d, nn, userId, name, date)
         IN  IF q.err # NULL
             THEN [db |-> q.db,
                   res |-> Response(500, ErrorBody("Failed to create event"), 1)]
             ELSE [db |-> q.db,
                   res |-> Response(201,
                             EventView(CHOOSE e \in q.rows : TRUE, {}), 1)]

\* src/unnamed/part_002
CreateEventOld(d, nn, userId, name, date) ==
    LET q == InsertEvent(d, nn, userId, name, date)
    IN  IF q.err # NULL
        THEN [db |-> q.db,
              res |-> Response(500, ErrorBody("Internal Server Error"), 1)]
        ELSE [db |-> q.db,
              res |-> Response(200,
                        EventView(CHOOSE e \in q.rows : TRUE, {}), 1)]

CreateEventHandler(v, d, nn, userId, name, date) ==
    IF v \in OldRoutes THEN CreateEventOld(d, nn, userId, name, date)
    ELSE CreateEventServer(d, nn, userId, name, date)

(***************************************************************************)
(* PUT /events/:id                                                         *)
(***************************************************************************)
\* src/server.js
UpdateEventServer(d, nn, userId, id, name, date) ==
    LET q == UpdateEvent(d, nn, name, date, id, userId)
    IN  IF q.err # NULL
        THEN [db |-> q.db,
              res |-> Response(500, ErrorBody("Failed to update event"), 1)]
        ELSE IF q.rows = {}
        THEN [db |-> q.db,
              res |-> Response(404,
                        ErrorBody("Event not found or access denied"), 1)]
        ELSE [db |-> q.db,
              res |-> Response(200,
                        EventViewNoRecipes(CHOOSE e \in q.rows : TRUE), 1)]

\* src/unnamed/part_002: rows[0] is undefined when nothing matched, and
\* reading updatedEvent.id throws into the catch block
UpdateEventOld(d, nn, userId, id, name, date) ==
    LET q == UpdateEvent(d, nn, name, date, id, userId)
    IN  IF q.err # NULL \/ q.rows = {}
        THEN [db |-> q.db,
              res |-> Response(500, ErrorBody("Internal Server Error"), 1)]
        ELSE [db |-> q.db,
              res |-> Response(200,
                        EventViewNoRecipes(CHOOSE e \in q.rows : TRUE), 1)]

UpdateEventHandler(v, d, nn, userId, id, name, date) ==
    IF v \in OldRoutes THEN UpdateEventOld(d, nn, userId, id, name, date)
    ELSE UpdateEventServer(d, nn, userId, id, name, date)

(***************************************************************************)
(* DELETE /events/:id                                                      *)
(***************************************************************************)
\* src/server.js
DeleteEventServer(d, userId, id) ==
    LET q == DeleteEvent(d, id, userId)
    IN  IF q.rows = {}
        THEN [db |-> q.db,
              res |-> Response(404,
                        ErrorBody("Event not found or access denied"), 1)]
        ELSE [db |-> q.db,
              res |-> Response(200, [message |-> "Event deleted"], 1)]

\* src/unnamed/part_002
DeleteEventOld(d, userId, id) ==
    LET q == DeleteEvent(d, id, userId)
    IN  [db |-> q.db, res |-> Response(200, [message |-> "Event deleted"], 1)]

DeleteEventHandler(v, d, userId, id) ==
    IF v \in OldRoutes THEN DeleteEventOld(d, userId, id)
    ELSE DeleteEventServer(d, userId, id)

(***************************************************************************)
(* Strings.                                                                *)
(***************************************************************************)
RECURSIVE TrimStart(_)
TrimStart(s) ==
    IF Len(s) > 0 /\ SubSeq(s, 1, 1) = " "
    THEN TrimStart(SubSeq(s, 2, Len(s))) ELSE s

RECURSIVE TrimEnd(_)
TrimEnd(s) ==
    IF Len(s) > 0 /\ SubSeq(s, Len(s), Len(s)) = " "
    THEN TrimEnd(SubSeq(s, 1, Len(s) - 1)) ELSE s

\* String.prototype.trim
Trim(s) == TrimEnd(TrimStart(s))

\* String.prototype.startsWith
StartsWith(s, prefix) ==
    Len(s) >= Len(prefix) /\ SubSeq(s, 1, Len(prefix)) = prefix

\* `${v}` in a template literal
TemplateString(v) ==
    IF v = UNDEFINED THEN "undefined" ELSE IF v = NULL THEN "null" ELSE v

\* Array.prototype.join(", ") of a sequence of strings
RECURSIVE Join(_)
Join(parts) ==
    IF parts = <<>> THEN ""
    ELSE IF Len(parts) = 1 THEN parts[1]
    ELSE parts[1] \o ", " \o Join(Tail(parts))

(***************************************************************************)
(* The sidecar recipes.recipe_data.                                        *)
(*   stored : SidecarNull, or the JSON text JsonStringify(o) that the      *)
(*            driver sent for the object o                                 *)
(*   read   : what node-postgres hands to the handler                      *)
(*            [kind |-> "null"]                                            *)
(*            [kind |-> "undefined"]       column not selected             *)
(*            [kind |-> "object", obj]     parsed by the driver (jsonb)    *)
(*            [kind |-> "text", valid, obj] a string (text column); obj is *)
(*                                         what the text denotes if valid  *)
(***************************************************************************)
EmptyObject == [k \in {} |-> ""]

SidecarNull == [kind |-> "null"]
SidecarUndefined == [kind |-> "undefined"]
SidecarObject(o) == [kind |-> "object", obj |-> o]
SidecarText(o) == [kind |-> "text", valid |-> TRUE, obj |-> o]
SidecarBadText == [kind |-> "text", valid |-> FALSE]

\* JSON.stringify of an object, as node-postgres does for an object parameter
JsonStringify(o) == SidecarText(o)

\* what a SELECT of recipe_data returns for a stored value
ReadSidecar(column, stored) ==
    IF stored.kind = "null" THEN SidecarNull
    ELSE IF column = "jsonb" THEN SidecarObject(stored.obj)
    ELSE stored

\* JSON.parse(v): v is coerced to a string first, and an object coerces to
\* "[object Object]", which is not JSON
JsonParse(v) ==
    IF v.kind = "text" /\ v.valid
    THEN [ok |-> TRUE, val |-> v.obj]
    ELSE [ok |-> FALSE, error |-> "SyntaxError"]

SidecarTruthy(v) == v.kind \in {"object", "text"}

(***************************************************************************)
(* Recipe rows.                                                            *)
(***************************************************************************)
MaxSlots == 20

IngredientKeys == {"strIngredient" \o ToString(i) : i \in 1..MaxSlots}

\* the keys copied from the sidecar into a reconstructed record
IsSlotKey(key) ==
    StartsWith(key, "strIngredient") \/ StartsWith(key, "strMeasure")

\* the named properties of a reconstructed record, before the copied keys
FixedKeys ==
    {"id", "idMeal", "strMeal", "strMealThumb", "strCategory", "strArea",
     "strTags", "strYoutube", "strSource", "strInstructions", "custom"}

\* MergeRecord with the copied sidecar keys spread after strIngredients
MergeRecordSpreadLast(fixed, storedData, ingredients) ==
    LET copied == {k \in DOMAIN storedData : IsSlotKey(k)}
    IN  [k \in FixedKeys \cup copied \cup {"strIngredients"} |->
            IF k \in copied THEN storedData[k]
            ELSE IF k = "strIngredients" THEN ingredients
            ELSE fixed[k]]

\* { ...fixed, ...copied sidecar keys, strIngredients: recipe.ingredients }
MergeRecord(fixed, storedData, ingredients) ==
    LET copied == {k \in DOMAIN storedData : IsSlotKey(k)}
    IN  [k \in FixedKeys \cup copied \cup {"strIngredients"} |->
            IF k = "strIngredients" THEN ingredients
            ELSE IF k \in copied THEN storedData[k]
            ELSE fixed[k]]

\* src/server.js 305-317 and 581-593: the named properties
FixedProperties(recipe, storedData) ==
    [id |-> recipe.id,
     idMeal |-> recipe.meal_id,
     strMeal |-> recipe.title,
     strMealThumb |-> recipe.image,
     strCategory |-> Or(Get(storedData, "strCategory"),
                        Or(recipe.category, "Unknown")),
     strArea |-> Or(Get(storedData, "strArea"), Or(recipe.area, "Unknown")),
     strTags |-> Or(Get(storedData, "strTags"), Or(recipe.tags, "")),
     strYoutube |-> Or(Get(storedData, "strYoutube"),
                       Or(recipe.youtube_url, "")),
     strSource |-> Or(Get(storedData, "strSource"), Or(recipe.source_url, "")),
     strInstructions |-> Or(recipe.instructions,
                            Or(Get(storedData, "strInstructions"), "")),
     custom |-> recipe.custom]

\* GET /events, the recipesByEvent reducer (src/server.js 297-332):
\*   storedData = JSON.parse(recipe.recipe_data || "{}")
ListReconstruct(recipe) ==
    LET parsed == IF SidecarTruthy(recipe.recipe_data)
                  THEN JsonParse(recipe.recipe_data)
                  ELSE JsonParse(JsonStringify(EmptyObject))
    IN  IF ~parsed.ok THEN [ok |-> FALSE, error |-> parsed.error]
        ELSE [ok |-> TRUE,
              val |-> MergeRecord(FixedProperties(recipe, parsed.val),
                                  parsed.val, recipe.ingredients)]

\* getEventWithRecipes, first declaration (src/server.js 576-609):
\*   storedData = recipe.recipe_data || {}
\* A string has no strCategory property and its keys are its indices.
GetReconstruct(recipe) ==
    LET storedData == IF recipe.recipe_data.kind = "object"
                      THEN recipe.recipe_data.obj ELSE EmptyObject
    IN  [ok |-> TRUE,
         val |-> MergeRecord(FixedProperties(recipe, storedData),
                             storedData, recipe.ingredients)]

\* getEventWithRecipes, second declaration (src/server.js 653-669)
GetReconstruct2(recipe) ==
    LET full == IF recipe.recipe_data.kind = "object"
                THEN recipe.recipe_data.obj ELSE EmptyObject
    IN  [ok |-> TRUE,
         val |-> [id |-> recipe.id,
                  idMeal |-> recipe.meal_id,
                  strMeal |-> recipe.title,
                  strMealThumb |-> recipe.image,
                  strCategory |-> Or(recipe.category,
                                     Or(Get(full, "strCategory"), "Unknown")),
                  strArea |-> Or(recipe.area,
                                 Or(Get(full, "strArea"), "Unknown")),
                  strTags |-> Or(recipe.tags, Or(Get(full, "strTags"), "")),
                  strYoutube |-> Or(recipe.youtube_url,
                                    Or(Get(full, "strYoutube"), "")),
                  strSource |-> Or(recipe.source_url,
                                   Or(Get(full, "strSource"), "")),
                  strIngredients |-> recipe.ingredients,
                  strInstructions |-> recipe.instructions,
                  custom |-> recipe.custom]]

(***************************************************************************)
(* SQL statements on the recipes table.                                    *)
(***************************************************************************)
RecipeColumns ==
    {"id", "event_id", "user_id", "meal_id", "title", "image", "ingredients",
     "instructions", "custom", "category", "area", "tags", "youtube_url",
     "source_url", "recipe_data"}

\* the row an INSERT builds: columns not named in the statement are NULL
NewRecipeRow(id, given) ==
    [c \in RecipeColumns |->
        IF c = "id" THEN id
        ELSE IF c \in DOMAIN given THEN given[c]
        ELSE IF c = "recipe_data" THEN SidecarNull
        ELSE NULL]

\* SelectRecipeByEventAndMeal without "event_id = $1 AND"
SelectRecipeByMealAnyEvent(d, eventId, mealId) ==
    {r \in d.recipes : mealId # NULL /\ r.meal_id = mealId}

\* SELECT id FROM recipes WHERE event_id = $1 AND meal_id = $2
SelectRecipeByEventAndMeal(d, eventId, mealId) ==
    {r \in d.recipes :
        r.event_id = eventId /\ mealId # NULL /\ r.meal_id = mealId}

\* INSERT INTO recipes (...) VALUES (...) RETURNING *
\* The serial id is drawn first; then NOT NULL, the unique index and the
\* foreign key on event_id are checked.
InsertRecipe(d, e, given) ==
    LET row == NewRecipeRow(d.nextRecipeId, given)
        drawn == [d EXCEPT !.nextRecipeId = @ + 1]
        fail(code) == [err |-> code, rows |-> {}, db |-> drawn]
    IN  IF e.notNull /\ (row.meal_id = NULL \/ row.title = NULL)
        THEN fail("23502")
        ELSE IF e.uniqueIndex
                /\ SelectRecipeByEventAndMeal(d, row.event_id, row.meal_id) # {}
        THEN fail("23505")
        ELSE IF \A ev \in d.events : ev.id # row.event_id
        THEN fail("23503")
        ELSE [err |-> NULL, rows |-> {row},
              db |-> [drawn EXCEPT !.recipes = @ \cup {row}]]

\* SELECT event_id, id, ..., recipe_data FROM recipes
\* WHERE event_id = ANY($1::int[])
SelectRecipesByEvents(d, column, eventIds) ==
    {[r EXCEPT !.recipe_data = ReadSidecar(column, @)] :
        r \in {x \in d.recipes : x.event_id \in eventIds}}

\* SELECT id, ..., recipe_data FROM recipes
\* WHERE event_id = $1 AND user_id = $2          (src/server.js 568-574)
SelectRecipesByEventAndUser(d, column, eventId, userId) ==
    {[r EXCEPT !.recipe_data = ReadSidecar(column, @)] :
        r \in {x \in d.recipes : x.event_id = eventId /\ x.user_id = userId}}

\* the select list of src/server.js 646: the columns that are not selected
\* read as undefined
Project2(r) ==
    [r EXCEPT !.category = UNDEFINED, !.area = UNDEFINED,
              !.tags = UNDEFINED, !.youtube_url = UNDEFINED,
              !.source_url = UNDEFINED, !.recipe_data = SidecarUndefined]

\* SELECT id, meal_id, title, image, ingredients, instructions, custom
\* FROM recipes WHERE event_id = $1 AND user_id = $2  (src/server.js 645-651)
SelectRecipesByEventAndUser2(d, eventId, userId) ==
    {Project2(r) :
        r \in {x \in d.recipes : x.event_id = eventId /\ x.user_id = userId}}

\* json_build_object('id', r.id, ..., 'strCategory', 'Unknown', ...)
AggRecipe(r) ==
    [id |-> r.id, idMeal |-> r.meal_id, strMeal |-> r.title,
     strMealThumb |-> r.image, strCategory |-> "Unknown",
     strArea |-> "Unknown"]

\* events e LEFT JOIN recipes r ON e.id = r.event_id ... GROUP BY e.id
EventsJoinRecipes(d, eventRows) ==
    {EventView(e, {AggRecipe(r) : r \in {x \in d.recipes : x.event_id = e.id}})
        : e \in eventRows}

(***************************************************************************)
(* GET /events                                                             *)
(***************************************************************************)
ListBody(views) == [events |-> views]

\* src/server.js 266-359
ListEventsServer(d, e, userId) ==
    LET eventRows == SelectEventsByUser(d, userId)
        eventIds == {ev.id : ev \in eventRows}
        recipes == IF eventIds # {}
                   THEN SelectRecipesByEvents(d, e.sidecarColumn, eventIds)
                   ELSE {}
        queries == IF eventIds # {} THEN 2 ELSE 1
    IN  IF \E r \in recipes : ~ListReconstruct(r).ok
        THEN [db |-> d,
              res |-> Response(500, ErrorBody("Failed to fetch events"),
                               queries)]
        ELSE [db |-> d,
              res |-> Response(200,
                        ListBody({EventView(ev,
                                    {ListReconstruct(r).val :
                                       r \in {x \in recipes :
                                                x.event_id = ev.id}})
                                  : ev \in eventRows}),
                        queries)]

\* src/unnamed/part_002 42-96
ListEventsOld(d, userId) ==
    [db |-> d,
     res |-> Response(200,
               ListBody(EventsJoinRecipes(d, SelectEventsByUser(d, userId))),
               1)]

ListEventsHandler(e, d, userId) ==
    IF e.version \in OldRoutes THEN ListEventsOld(d, userId)
    ELSE ListEventsServer(d, e, userId)

(***************************************************************************)
(* getEventWithRecipes(eventId, userId): the two declarations.             *)
(* The result is [ok, val]; ok is FALSE when the helper throws.            *)
(***************************************************************************)
\* src/server.js 552-626
GetEventWithRecipes1(d, e, eventId, userId) ==
    LET eventRows == SelectEventByIdAndUser(d, eventId, userId)
    IN  IF eventRows = {}
        THEN [ok |-> FALSE, error |-> "Event not found"]
        ELSE [ok |-> TRUE,
              val |-> EventView(CHOOSE ev \in eventRows : TRUE,
                        {GetReconstruct(r).val :
                           r \in SelectRecipesByEventAndUser(
                                   d, e.sidecarColumn, eventId, userId)})]

\* src/server.js 629-686
GetEventWithRecipes2(d, e, eventId, userId) ==
    LET eventRows == SelectEventByIdAndUser(d, eventId, userId)
    IN  IF eventRows = {}
        THEN [ok |-> FALSE, error |-> "Event not found"]
        ELSE [ok |-> TRUE,
              val |-> EventView(CHOOSE ev \in eventRows : TRUE,
                        {GetReconstruct2(r).val :
                           r \in SelectRecipesByEventAndUser2(
                                   d, eventId, userId)})]

getEventWithRecipes(d, e, eventId, userId) ==
    IF e.helper = 1 THEN GetEventWithRecipes1(d, e, eventId, userId)
    ELSE GetEventWithRecipes2(d, e, eventId, userId)

(***************************************************************************)
(* POST /events/:id/recipes                                                *)
(* The request body's recipe is [kind |-> "undefined"] when the body has   *)
(* none, and [kind |-> "object", obj |-> o] otherwise.                     *)
(***************************************************************************)
NoRecipe == [kind |-> "undefined"]
RecipeObject(o) == [kind |-> "object", obj |-> o]

\* !recipe || !recipe.idMeal || !recipe.strMeal
InvalidRecipe(recipe) ==
    \/ recipe.kind = "undefined"
    \/ ~Truthy(Get(recipe.obj, "idMeal"))
    \/ ~Truthy(Get(recipe.obj, "strMeal"))

\* src/server.js 507-515: the entries pushed for slots i..20
RECURSIVE IngredientsFrom(_, _)
IngredientsFrom(o, i) ==
    IF i > MaxSlots THEN <<>>
    ELSE LET ingredient == Get(o, "strIngredient" \o ToString(i))
             measure == Get(o, "strMeasure" \o ToString(i))
             \* measure?.trim()
             trimmed == IF measure \in {UNDEFINED, NULL} THEN UNDEFINED
                        ELSE Trim(measure)
         IN  IF Truthy(ingredient) /\ Trim(ingredient) # ""
             THEN <<Trim(TemplateString(trimmed) \o " " \o Trim(ingredient))>>
                  \o IngredientsFrom(o, i + 1)
             ELSE IngredientsFrom(o, i + 1)

IngredientsText(o) == Join(IngredientsFrom(o, 1))

\* src/unnamed/part_000 46-56
RECURSIVE IngredientsFrom000(_, _)
IngredientsFrom000(o, i) ==
    IF i > MaxSlots THEN <<>>
    ELSE LET ingredient == Get(o, "strIngredient" \o ToString(i))
             measure == Get(o, "strMeasure" \o ToString(i))
         IN  IF Truthy(ingredient) /\ Truthy(Trim(ingredient))
             THEN <<(IF Truthy(measure) THEN Trim(measure) \o " " ELSE "")
                    \o Trim(ingredient)>>
                  \o IngredientsFrom000(o, i + 1)
             ELSE IngredientsFrom000(o, i + 1)

IngredientsText000(o) == Join(IngredientsFrom000(o, 1))

\* the parameters of the INSERT of src/server.js 517-538
InsertColumnsServer(id, userId, o) ==
    [event_id |-> id,
     user_id |-> userId,
     meal_id |-> o.idMeal,
     title |-> o.strMeal,
     image |-> Or(Get(o, "strMealThumb"), ""),
     ingredients |-> IngredientsText(o),
     instructions |-> Or(Get(o, "strInstructions"), ""),
     custom |-> JsFalse,
     category |-> Or(Get(o, "strCategory"), "Unknown"),
     area |-> Or(Get(o, "strArea"), "Unknown"),
     tags |-> Or(Get(o, "strTags"), NULL),
     youtube_url |-> Or(Get(o, "strYoutube"), NULL),
     source_url |-> Or(Get(o, "strSource"), NULL),
     recipe_data |-> JsonStringify(o)]

\* src/server.js 466-549
AddRecipeServer(d, e, userId, id, recipe) ==
    IF InvalidRecipe(recipe)
    THEN [db |-> d, res |-> Response(400, ErrorBody("Invalid recipe data."), 0)]
    ELSE IF SelectEventByIdAndUser(d, id, userId) = {}
    THEN [db |-> d,
          res |-> Response(404, ErrorBody("Event not found or access denied"),
                           1)]
    ELSE IF SelectRecipeByEventAndMeal(d, id, recipe.obj.idMeal) # {}
    THEN [db |-> d,
          res |-> Response(409,
                    ErrorBody("Recipe already added to this event"), 2)]
    ELSE LET ins == InsertRecipe(d, e,
                      InsertColumnsServer(id, userId, recipe.obj))
             got == getEventWithRecipes(ins.db, e, id, userId)
         IN  IF ins.err # NULL
             THEN [db |-> ins.db,
                   res |-> Response(500,
                             ErrorBody("Failed to add recipe to event"), 3)]
             ELSE IF ~got.ok
             THEN [db |-> ins.db,
                   res |-> Response(500,
                             ErrorBody("Failed to add recipe to event"), 4)]
             ELSE [db |-> ins.db, res |-> Response(200, got.val, 5)]

\* the parameters of the INSERT of src/unnamed/part_000 59-72
InsertColumns000(id, o) ==
    [event_id |-> id,
     meal_id |-> o.idMeal,
     title |-> o.strMeal,
     image |-> Or(Get(o, "strMealThumb"), ""),
     ingredients |-> IngredientsText000(o),
     instructions |-> Or(Get(o, "strInstructions"), ""),
     custom |-> JsFalse]

\* src/unnamed/part_000 81-111: the catch block
CatchPart000(d, code, queries) ==
    IF code = "23505"
    THEN [db |-> d,
          res |-> Response(409,
                    ErrorBody("Recipe already exists in this event"), queries)]
    ELSE IF code = "23503"
    THEN [db |-> d,
          res |-> Response(400, ErrorBody("Invalid event or recipe data"),
                           queries)]
    ELSE [db |-> d,
          res |-> Response(500, ErrorBody("Failed to add recipe"), queries)]

\* src/unnamed/part_000 2-112
AddRecipePart000(d, e, userId, id, recipe) ==
    IF InvalidRecipe(recipe)
    THEN [db |-> d,
          res |-> Response(400,
                    ErrorBody("Invalid recipe data. Missing required fields."),
                    0)]
    ELSE IF SelectEventByIdAndUser(d, id, userId) = {}
    THEN [db |-> d,
          res |-> Response(404, ErrorBody("Event not found or access denied"),
                           1)]
    ELSE IF SelectRecipeByEventAndMeal(d, id, recipe.obj.idMeal) # {}
    THEN [db |-> d,
          res |-> Response(409,
                    ErrorBody("Recipe already added to this event"), 2)]
    ELSE LET ins == InsertRecipe(d, e, InsertColumns000(id, recipe.obj))
             got == getEventWithRecipes(ins.db, e, id, userId)
         IN  IF ins.err # NULL THEN CatchPart000(ins.db, ins.err, 3)
             ELSE IF ~got.ok THEN CatchPart000(ins.db, NULL, 4)
             ELSE [db |-> ins.db, res |-> Response(200, got.val, 5)]

\* the parameters of the INSERT of src/unnamed/part_001 102-105
InsertColumns001(id, o) ==
    [event_id |-> id,
     meal_id |-> o.idMeal,
     title |-> o.strMeal,
     image |-> Or(Get(o, "strMealThumb"), "")]

\* src/unnamed/part_001 49-171
AddRecipePart001(d, e, userId, id, recipe) ==
    IF recipe.kind = "undefined"
    THEN [db |-> d,
          res |-> Response(400, ErrorBody("Recipe data is required"), 0)]
    ELSE IF InvalidRecipe(recipe)
    THEN [db |-> d,
          res |-> Response(400,
                    ErrorBody("Recipe must have idMeal and strMeal"), 0)]
    ELSE IF SelectEventByIdAndUser(d, id, userId) = {}
    THEN [db |-> d, res |-> Response(404, ErrorBody("Event not found"), 1)]
    ELSE IF SelectRecipeByEventAndMeal(d, id, recipe.obj.idMeal) # {}
    THEN [db |-> d,
          res |-> Response(409,
                    ErrorBody("Recipe already added to this event"), 2)]
    ELSE LET ins == InsertRecipe(d, e, InsertColumns001(id, recipe.obj))
             rows == EventsJoinRecipes(ins.db,
                       SelectEventByIdAndUser(ins.db, id, userId))
         IN  IF ins.err # NULL
             THEN [db |-> ins.db,
                   res |-> Response(500, ErrorBody("Internal Server Error"), 3)]
             ELSE IF rows = {}
             THEN [db |-> ins.db,
                   res |-> Response(500,
                             ErrorBody("Could not fetch updated event"), 4)]
             ELSE [db |-> ins.db,
                   res |-> Response(200, CHOOSE v \in rows : TRUE, 4)]

\* the parameters of the INSERT of src/unnamed/part_002 190-193
InsertColumns002(id, o) ==
    [event_id |-> id,
     meal_id |-> SqlParam(Get(o, "idMeal")),
     title |-> SqlParam(Get(o, "strMeal")),
     image |-> SqlParam(Get(o, "strMealThumb"))]

\* src/unnamed/part_002 172-243: no validation and no ownership check.
\* recipe.idMeal on a missing recipe, and updatedEvent.id on an empty
\* re-read, throw into the catch block.
AddRecipePart002(d, e, userId, id, recipe) ==
    IF recipe.kind = "undefined"
    THEN [db |-> d,
          res |-> Response(500, ErrorBody("Internal Server Error"), 0)]
    ELSE IF SelectRecipeByEventAndMeal(
              d, id, SqlParam(Get(recipe.obj, "idMeal"))) # {}
    THEN [db |-> d,
          res |-> Response(409,
                    ErrorBody("Recipe already added to this event"), 1)]
    ELSE LET ins == InsertRecipe(d, e, InsertColumns002(id, recipe.obj))
             rows == EventsJoinRecipes(ins.db,
                       SelectEventByIdAndUser(ins.db, id, userId))
         IN  IF ins.err # NULL
             THEN [db |-> ins.db,
                   res |-> Response(500, ErrorBody("Internal Server Error"), 2)]
             ELSE IF rows = {}
             THEN [db |-> ins.db,
                   res |-> Response(500, ErrorBody("Internal Server Error"), 3)]
             ELSE [db |-> ins.db,
                   res |-> Response(200, CHOOSE v \in rows : TRUE, 3)]

AddRecipeHandler(e, d, userId, id, recipe) ==
    IF e.version = "server" THEN AddRecipeServer(d, e, userId, id, recipe)
    ELSE IF e.version = "part_000"
    THEN AddRecipePart000(d, e, userId, id, recipe)
    ELSE IF e.version = "part_001"
    THEN AddRecipePart001(d, e, userId, id, recipe)
    ELSE AddRecipePart002(d, e, userId, id, recipe)

(***************************************************************************)
(* Requests.                                                               *)
(***************************************************************************)
Arrabiata ==
    [idMeal |-> "52977", strMeal |-> "Arrabiata", strCategory |-> "Italian",
     strIngredient1 |-> "Flour", strMeasure1 |-> "200g", strIngredient2 |-> ""]

Soup == [idMeal |-> "52978", strMeal |-> "Soup", strIngredient1 |-> " Leek "]

\* request bodies that pass the validation of the route
ValidBodies == {RecipeObject(Arrabiata), RecipeObject(Soup)}

\* every shape of request body: no recipe, no external id, no title, valid
RecipeBodies ==
    {NoRecipe,
     RecipeObject([strMeal |-> "Soup"]),
     RecipeObject([idMeal |-> "52977"])} \cup ValidBodies

EmptyDb ==
    [events |-> {}, recipes |-> {}, nextEventId |-> 1, nextRecipeId |-> 1]

NoRequest ==
    [req |-> [op |-> "none"],
     res |-> Response(0, [none |-> TRUE], 0)]

Clients == {"c1", "c2"}

Idle == [pc |-> "idle"]

NoneInFlight == [c \in Clients |-> Idle]

NotRun == [run |-> FALSE]

NoRecon == [row |-> [none |-> TRUE], list |-> NotRun, get |-> NotRun,
            get2 |-> NotRun]

\* the rows inserted so far, counted by the serials drawn
RowsInserted(d) == (d.nextEventId - 1) + (d.nextRecipeId - 1)

\* a request was handled: the store and the response it leaves
Handled(req, out) ==
    /\ out.db.nextEventId <= MaxEventId + 1
    /\ out.db.nextRecipeId <= MaxRecipeId + 1
    /\ RowsInserted(out.db) <= MaxRows
    /\ db' = out.db
    /\ last' = [req |-> req, res |-> out.res]
    /\ UNCHANGED <<env, recon, inflight>>

ListEventsReq ==
    \E u \in Users :
        Handled([op |-> "listEvents", user |-> u],
                ListEventsHandler(env, db, u))

CreateEventReq(names, dates) ==
    \E u \in Users, n \in names, dt \in dates :
        Handled([op |-> "createEvent", user |-> u, name |-> n, date |-> dt],
                CreateEventHandler(env.version, db, env.notNull, u, n, dt))

UpdateEventReq(names, dates) ==
    \E u \in Users, id \in EventIds, n \in names, dt \in dates :
        Handled([op |-> "updateEvent", user |-> u, id |-> id,
                 name |-> n, date |-> dt],
                UpdateEventHandler(env.version, db, env.notNull, u, id, n, dt))

DeleteEventReq(ids) ==
    \E u \in Users, id \in ids :
        Handled([op |-> "deleteEvent", user |-> u, id |-> id],
                DeleteEventHandler(env.version, db, u, id))

AddRecipeReq(bodies) ==
    \E u \in Users, id \in EventIds, recipe \in bodies :
        Handled([op |-> "addRecipe", user |-> u, id |-> id,
                 recipe |-> recipe],
                AddRecipeHandler(env, db, u, id, recipe))

Envs ==
    [version : Versions, helper : {1, 2}, sidecarColumn : {"jsonb", "text"},
     notNull : BOOLEAN, uniqueIndex : BOOLEAN]

\* The deployments told apart by the routes of Spec: a parameter that no
\* route of the iteration can observe is held at one value.
\*   helper        : read by part_000 and server (getEventWithRecipes)
\*   sidecarColumn : read by server, the one iteration that writes a sidecar
\*   notNull       : read by part_002, the one iteration that inserts a
\*                   recipe without validating it
\*   uniqueIndex   : never rejects when requests do not interleave, because
\*                   every handler looks the pair up before it inserts
SpecEnvs ==
    {e \in Envs :
        /\ e.uniqueIndex = FALSE
        /\ e.version \notin {"part_000", "server"} => e.helper = 1
        /\ e.version # "server" => e.sidecarColumn = "jsonb"
        /\ e.version # "part_002" => e.notNull = FALSE}

(***************************************************************************)
(* Spec: one request at a time, each handler run to its response; every    *)
(* add-recipe body is one that the validation accepts.                     *)
(***************************************************************************)
Init ==
    /\ env \in SpecEnvs
    /\ db = EmptyDb
    /\ last = NoRequest
    /\ recon = NoRecon
    /\ inflight = NoneInFlight

Next ==
    \/ ListEventsReq
    \/ CreateEventReq({"Party"}, {"2025-06-01"})
    \/ DeleteEventReq(EventIds)
    \/ AddRecipeReq(ValidBodies)

Spec == Init /\ [][Next]_vars

(***************************************************************************)
(* SpecBodies: as Spec, with every shape of add-recipe body.               *)
(***************************************************************************)
NextBodies ==
    \/ ListEventsReq
    \/ CreateEventReq({"Party"}, {"2025-06-01"})
    \/ DeleteEventReq(EventIds)
    \/ AddRecipeReq(RecipeBodies)

SpecBodies == Init /\ [][NextBodies]_vars

(***************************************************************************)
(* DELETE /events/:id/recipes/:mealId (src/unnamed/part_002 245-307, kept  *)
(* by part_001), and SpecRemove: the routes of those two iterations with   *)
(* it.                                                                     *)
(***************************************************************************)
\* DELETE FROM recipes WHERE event_id = $1 AND meal_id = $2
DeleteRecipeByEventAndMeal(d, eventId, mealId) ==
    [d EXCEPT !.recipes = {r \in @ : ~(r.event_id = eventId
                                        /\ r.meal_id = mealId)}]

\* the route: the DELETE, then the json_agg re-read by id and user_id;
\* updatedEvent.id on an empty re-read throws into the catch block
RemoveRecipeOld(d, userId, id, mealId) ==
    LET after == DeleteRecipeByEventAndMeal(d, id, mealId)
        rows == EventsJoinRecipes(after,
                  SelectEventByIdAndUser(after, id, userId))
    IN  IF rows = {}
        THEN [db |-> after,
              res |-> Response(500, ErrorBody("Internal Server Error"), 2)]
        ELSE [db |-> after,
              res |-> Response(200, CHOOSE v \in rows : TRUE, 2)]

\* req.params.mealId
MealIds == {"52977", "52978"}

RemoveRecipeReq ==
    \E u \in Users, id \in EventIds, mealId \in MealIds :
        Handled([op |-> "removeRecipe", user |-> u, id |-> id,
                 mealId |-> mealId],
                RemoveRecipeOld(db, u, id, mealId))

InitRemove ==
    /\ env \in {e \in SpecEnvs : e.version \in OldRoutes}
    /\ db = EmptyDb
    /\ last = NoRequest
    /\ recon = NoRecon
    /\ inflight = NoneInFlight

NextRemove ==
    \/ ListEventsReq
    \/ CreateEventReq({"Party"}, {"2025-06-01"})
    \/ DeleteEventReq(EventIds)
    \/ AddRecipeReq(ValidBodies)
    \/ RemoveRecipeReq

SpecRemove == InitRemove /\ [][NextRemove]_vars

(***************************************************************************)
(* SpecEvents: the event routes alone, with every shape of event payload.  *)
(* No recipe exists, so only the iteration's event routes and NOT NULL     *)
(* tell deployments apart.                                                 *)
(***************************************************************************)
EventEnvs ==
    {e \in Envs :
        /\ e.version \in {"part_002", "server"}
        /\ e.helper = 1 /\ e.sidecarColumn = "jsonb" /\ e.uniqueIndex = FALSE}

InitEvents ==
    /\ env \in EventEnvs
    /\ db = EmptyDb
    /\ last = NoRequest
    /\ recon = NoRecon
    /\ inflight = NoneInFlight

NextEvents ==
    \/ ListEventsReq
    \/ CreateEventReq(Names, Dates)
    \/ UpdateEventReq(Names, Dates)
    \/ DeleteEventReq(EventIds)

SpecEvents == InitEvents /\ [][NextEvents]_vars

(***************************************************************************)
(* SpecRecon: the reconstruction of one recipe row, as a function of the   *)
(* row.  The row is any row the recipes table can hold, read through any   *)
(* type of the recipe_data column; each read path is applied to it once.   *)
(***************************************************************************)
ColumnValues == {NULL, "", "Unknown", "Mexican"}

\* what a sidecar holds under one key: nothing, null, or a string
SidecarValues == {UNDEFINED, NULL, "Unknown", "Italian"}

\* a sidecar object with the given strCategory and strArea; a key whose
\* value is undefined is missing from the object
SidecarOf(category, area) ==
    LET value == [strCategory |-> category, strArea |-> area]
    IN  [k \in {x \in {"strCategory", "strArea"} : value[x] # UNDEFINED} |->
            value[k]]

ReconObjects == {SidecarOf(c, a) : c \in SidecarValues, a \in SidecarValues}

ReconSidecars ==
    {SidecarNull, SidecarBadText}
      \cup {SidecarObject(o) : o \in ReconObjects}
      \cup {SidecarText(o) : o \in ReconObjects}

ReconRow(category, area, sidecar) ==
    [id |-> 1, event_id |-> 1, user_id |-> "u1", meal_id |-> "52977",
     title |-> "Arrabiata", image |-> "", ingredients |-> "200g Flour",
     instructions |-> "", custom |-> JsFalse, category |-> category,
     area |-> area, tags |-> NULL, youtube_url |-> NULL, source_url |-> NULL,
     recipe_data |-> sidecar]

ReconRows ==
    {ReconRow(c, a, sc) :
        c \in ColumnValues, a \in ColumnValues, sc \in ReconSidecars}

Ran(result) == [run |-> TRUE, ok |-> result.ok, out |-> result]

InitRecon ==
    /\ env \in {e \in SpecEnvs : e.version = "server" /\ e.helper = 1
                                   /\ e.sidecarColumn = "jsonb"}
    /\ db = EmptyDb
    /\ last = NoRequest
    /\ \E row \in ReconRows : recon = [NoRecon EXCEPT !.row = row]
    /\ inflight = NoneInFlight

\* GET /events reconstructs the row
ReconList ==
    /\ ~recon.list.run
    /\ recon' = [recon EXCEPT !.list = Ran(ListReconstruct(recon.row))]
    /\ UNCHANGED <<env, db, last, inflight>>

\* getEventWithRecipes (first declaration) reconstructs the row
ReconGet ==
    /\ ~recon.get.run
    /\ recon' = [recon EXCEPT !.get = Ran(GetReconstruct(recon.row))]
    /\ UNCHANGED <<env, db, last, inflight>>

\* getEventWithRecipes (second declaration) selects its columns of the row
\* and reconstructs it
ReconGet2 ==
    /\ ~recon.get2.run
    /\ recon' = [recon EXCEPT
                   !.get2 = Ran(GetReconstruct2(Project2(recon.row)))]
    /\ UNCHANGED <<env, db, last, inflight>>

NextRecon == ReconList \/ ReconGet \/ ReconGet2

SpecRecon == InitRecon /\ [][NextRecon]_vars

(***************************************************************************)
(* SpecFields: the three read paths on rows that differ in tags, video     *)
(* link, source link and instructions, and on rows whose sidecar carries   *)
(* ingredient / measure keys and keys named like the fixed properties.     *)
(***************************************************************************)
\* the object o without the keys whose value is undefined
WithoutUndefined(o) ==
    [k \in {x \in DOMAIN o : o[x] # UNDEFINED} |-> o[k]]

\* a parsed sidecar and the same sidecar as a JSON text
BothKinds(objects) ==
    {SidecarObject(o) : o \in objects} \cup {SidecarText(o) : o \in objects}

\* sidecars that differ in strTags, strYoutube, strSource, strInstructions
FieldObjects ==
    {WithoutUndefined([strTags |-> t, strYoutube |-> y, strSource |-> src,
                       strInstructions |-> i]) :
        t \in {UNDEFINED, "", "Vegan"}, y \in {UNDEFINED, "yt.be/s"},
        src \in {UNDEFINED, "src.io/s"}, i \in {UNDEFINED, "", "Bake."}}

\* rows that differ in tags, youtube_url, source_url, instructions
FieldRows ==
    {[ReconRow("Italian", NULL, sc) EXCEPT
        !.tags = t, !.youtube_url = y, !.source_url = src,
        !.instructions = i] :
        t \in {NULL, "", "Pasta"}, y \in {NULL, "yt.be/c"},
        src \in {NULL, "src.io/c"}, i \in {NULL, "", "Boil."},
        sc \in BothKinds(FieldObjects)}

\* sidecars with ingredient / measure keys (truthy, empty, null), a key
\* strIngredients, and keys named like the fixed properties
SlotObjects ==
    {WithoutUndefined([strIngredient1 |-> i1, strMeasure1 |-> m1,
                       strIngredient2 |-> i2, strIngredients |-> all,
                       id |-> id, idMeal |-> meal, strMeal |-> title,
                       strMealThumb |-> title, custom |-> id]) :
        i1 \in {UNDEFINED, "", "Flour"}, m1 \in {UNDEFINED, NULL, "200g"},
        i2 \in {UNDEFINED, ""}, all \in {UNDEFINED, "1kg Sugar"},
        id \in {UNDEFINED, "7"}, meal \in {UNDEFINED, "999"},
        title \in {UNDEFINED, "Other"}}

\* rows that differ in the ingredients column and in those sidecars
SlotRows ==
    {[ReconRow("Italian", NULL, sc) EXCEPT !.ingredients = ing] :
        ing \in {NULL, "200g Flour"}, sc \in BothKinds(SlotObjects)}

InitFields ==
    /\ env \in {e \in SpecEnvs : e.version = "server" /\ e.helper = 1
                                   /\ e.sidecarColumn = "jsonb"}
    /\ db = EmptyDb
    /\ last = NoRequest
    /\ \E row \in FieldRows \cup SlotRows :
         recon = [NoRecon EXCEPT !.row = row]
    /\ inflight = NoneInFlight

SpecFields == InitFields /\ [][NextRecon]_vars

(***************************************************************************)
(* SpecIngredients: the ingredients string that add-recipe derives from a  *)
(* request payload, by the loop of src/server.js and by the loop of        *)
(* src/unnamed/part_000.  recon holds the payload and what each derives.   *)
(***************************************************************************)
\* what a payload holds as the ingredient name of a slot
IngredientValues == {UNDEFINED, NULL, "", " ", "Flour", " Leek "}

\* what a payload holds as the measure of a slot
MeasureValues == {UNDEFINED, NULL, " ", "200g", " 1 cup "}

\* payloads with slots 1 and 2 of every shape, and with or without a name
\* in slot 20 (the last slot read) and in slot 21 (never read)
IngredientPayloads ==
    {WithoutUndefined([strIngredient1 |-> i1, strMeasure1 |-> m1,
                       strIngredient2 |-> i2, strMeasure2 |-> m2,
                       strIngredient20 |-> i20, strIngredient21 |-> i21]) :
        i1 \in IngredientValues, m1 \in MeasureValues,
        i2 \in IngredientValues, m2 \in MeasureValues,
        i20 \in {UNDEFINED, "Salt"}, i21 \in {UNDEFINED, "Pepper"}}

Derived(text) == [run |-> TRUE, text |-> text]

InitIngredients ==
    /\ env \in {e \in SpecEnvs : e.version = "server" /\ e.helper = 1
                                   /\ e.sidecarColumn = "jsonb"}
    /\ db = EmptyDb
    /\ last = NoRequest
    /\ \E o \in IngredientPayloads :
         recon = [recipe |-> o, server |-> NotRun, part000 |-> NotRun]
    /\ inflight = NoneInFlight

\* src/server.js 506-515
DeriveServer ==
    /\ ~recon.server.run
    /\ recon' = [recon EXCEPT
                   !.server = Derived(IngredientsText(recon.recipe))]
    /\ UNCHANGED <<env, db, last, inflight>>

\* src/unnamed/part_000 45-56
DerivePart000 ==
    /\ ~recon.part000.run
    /\ recon' = [recon EXCEPT
                   !.part000 = Derived(IngredientsText000(recon.recipe))]
    /\ UNCHANGED <<env, db, last, inflight>>

NextIngredients == DeriveServer \/ DerivePart000

SpecIngredients == InitIngredients /\ [][NextIngredients]_vars

(***************************************************************************)
(* SpecFail: a storage query of a route rejects, and the route's catch     *)
(* block answers.  The first query of the handler is the one that rejects, *)
(* so the store is left as it was.  process.env.NODE_ENV is fixed when the *)
(* process starts.                                                         *)
(***************************************************************************)
NodeEnvs == {UNDEFINED, "production", "development", "test"}

\* the errors that pool.query rejects with: message, stack and SQLSTATE code
StorageErrors ==
    {[message |-> "Connection terminated unexpectedly",
      stack |-> "Error: Connection terminated unexpectedly at Client",
      code |-> UNDEFINED],
     [message |-> "relation does not exist",
      stack |-> "error: relation does not exist at Parser",
      code |-> "42P01"],
     [message |-> "duplicate key value violates unique constraint",
      stack |-> "error: duplicate key value at Parser",
      code |-> "23505"]}

\* res.json drops the properties whose value is undefined
JsonBody(o) == WithoutUndefined(o)

\* src/server.js 349-358: the catch block of GET /events
CatchListServer(error, nodeEnv) ==
    Response(500,
      JsonBody([error |-> "Failed to fetch events",
                details |-> IF nodeEnv = "development" THEN error.message
                            ELSE "Internal server error"]), 1)

\* src/server.js 394-401: the catch block of POST /events
CatchCreateServer(error, nodeEnv) ==
    Response(500,
      JsonBody([error |-> "Failed to create event",
                details |-> IF nodeEnv = "development" THEN error.message
                            ELSE UNDEFINED]), 1)

\* src/unnamed/part_000 81-111: the catch block of POST /events/:id/recipes
CatchAddRecipe000(error, nodeEnv) ==
    IF error.code = "23505"
    THEN Response(409, ErrorBody("Recipe already exists in this event"), 1)
    ELSE IF error.code = "23503"
    THEN Response(400, ErrorBody("Invalid event or recipe data"), 1)
    ELSE Response(500,
           JsonBody([error |-> "Failed to add recipe",
                     details |-> IF nodeEnv = "development"
                                 THEN error.message
                                 ELSE "Internal server error"]), 1)

\* src/unnamed/part_001 162-170: the catch block of POST /events/:id/recipes
CatchAddRecipe001(error, nodeEnv) ==
    Response(500,
      JsonBody([error |-> "Internal Server Error",
                details |-> error.message,
                stack |-> IF nodeEnv = "development" THEN error.stack
                          ELSE UNDEFINED]), 1)

\* src/unnamed/part_002 92-95: the catch block of GET /events
CatchList002(error) == Response(500, JsonBody([error |-> error.message]), 1)

\* the catch blocks that answer with a fixed text:
\* src/server.js 435-438, 459-462, 545-548 and
\* src/unnamed/part_002 121-124, 147-150, 165-168, 239-242, 302-305
CatchFixed(v, op) ==
    Response(500,
      ErrorBody(IF v \in OldRoutes \/ op = "removeRecipe"
                THEN "Internal Server Error"
                ELSE IF op = "updateEvent" THEN "Failed to update event"
                ELSE IF op = "deleteEvent" THEN "Failed to delete event"
                ELSE "Failed to add recipe to event"), 1)

\* the routes of an iteration; part_001 is served the event routes of
\* part_002 and part_000 those of server.js
RoutesOf(v) ==
    {"listEvents", "createEvent", "updateEvent", "deleteEvent", "addRecipe"}
      \cup (IF v \in OldRoutes THEN {"removeRecipe"} ELSE {})

\* the response of route op of iteration v when its query rejects with error
CatchHandler(v, op, error, nodeEnv) ==
    IF op = "addRecipe" /\ v = "part_000"
    THEN CatchAddRecipe000(error, nodeEnv)
    ELSE IF op = "addRecipe" /\ v = "part_001"
    THEN CatchAddRecipe001(error, nodeEnv)
    ELSE IF op = "listEvents" /\ v \in OldRoutes THEN CatchList002(error)
    ELSE IF op = "listEvents" THEN CatchListServer(error, nodeEnv)
    ELSE IF op = "createEvent" /\ v \notin OldRoutes
    THEN CatchCreateServer(error, nodeEnv)
    ELSE CatchFixed(v, op)

\* a request whose storage query rejects
FailedReq ==
    \E u \in Users, op \in RoutesOf(env.version), error \in StorageErrors :
        Handled([op |-> op, user |-> u, error |-> error],
                [db |-> db,
                 res |-> CatchHandler(env.version, op, error, env.nodeEnv)])

\* a deployment together with the NODE_ENV of its process
WithNodeEnv(e, nodeEnv) ==
    [version |-> e.version, helper |-> e.helper,
     sidecarColumn |-> e.sidecarColumn, notNull |-> e.notNull,
     uniqueIndex |-> e.uniqueIndex, nodeEnv |-> nodeEnv]

InitFail ==
    /\ env \in {WithNodeEnv(e, n) : e \in SpecEnvs, n \in NodeEnvs}
    /\ db = EmptyDb
    /\ last = NoRequest
    /\ recon = NoRecon
    /\ inflight = NoneInFlight

NextFail ==
    \/ ListEventsReq
    \/ CreateEventReq({"Party"}, {"2025-06-01"})
    \/ FailedReq

SpecFail == InitFail /\ [][NextFail]_vars

(***************************************************************************)
(* SpecConc: add-recipe requests of several clients in flight at once.     *)
(* A handler runs from one await to the next without interruption; each    *)
(* pool.query is one step on the store.  POST /events and DELETE           *)
(* /events/:id issue one query and are one step.                           *)
(***************************************************************************)
ConcBodies == {NoRecipe, RecipeObject(Arrabiata), RecipeObject(Soup)}

ConcEventIds == 1..MaxConcEventId

ConcEnvs ==
    {e \in Envs :
        e.helper = 1 /\ e.sidecarColumn = "jsonb" /\ e.notNull = FALSE}

InitConc ==
    /\ env \in ConcEnvs
    /\ db = EmptyDb
    /\ last = NoRequest
    /\ recon = NoRecon
    /\ inflight = NoneInFlight

\* the handler of client c sends its response
Respond(c, req, res) ==
    /\ last' = [req |-> req, res |-> res]
    /\ inflight' = [inflight EXCEPT ![c] = Idle]

\* the handler of client c is suspended at the next await
Await(c, pc) ==
    /\ inflight' = [inflight EXCEPT ![c].pc = pc]
    /\ UNCHANGED last

\* the catch block of the iteration's add-recipe handler
CatchAddRecipe(code, queries) ==
    IF env.version = "part_000" THEN CatchPart000(db, code, queries).res
    ELSE IF env.version = "server"
    THEN Response(500, ErrorBody("Failed to add recipe to event"), queries)
    ELSE Response(500, ErrorBody("Internal Server Error"), queries)

\* the request arrives; the handler runs up to its first query
ConcStart(c) ==
    /\ inflight[c].pc = "idle"
    /\ \E u \in Users, id \in ConcEventIds, recipe \in ConcBodies :
         LET req == [op |-> "addRecipe", user |-> u, id |-> id,
                     recipe |-> recipe]
         IN  IF env.version = "part_002"
             THEN IF recipe.kind = "undefined"
                  THEN Respond(c, req, CatchAddRecipe(NULL, 0))
                  ELSE /\ inflight' = [inflight EXCEPT
                                         ![c] = [pc |-> "existing", req |-> req]]
                       /\ UNCHANGED last
             ELSE IF InvalidRecipe(recipe)
                  THEN Respond(c, req,
                               AddRecipeHandler(env, db, u, id, recipe).res)
                  ELSE /\ inflight' = [inflight EXCEPT
                                         ![c] = [pc |-> "eventCheck",
                                                 req |-> req]]
                       /\ UNCHANGED last
    /\ UNCHANGED <<env, db, recon>>

\* const eventCheck = await pool.query("SELECT id FROM events WHERE ...")
ConcEventCheck(c) ==
    /\ inflight[c].pc = "eventCheck"
    /\ LET req == inflight[c].req
       IN  IF SelectEventByIdAndUser(db, req.id, req.user) = {}
           THEN Respond(c, req,
                  Response(404,
                    ErrorBody(IF env.version = "part_001"
                              THEN "Event not found"
                              ELSE "Event not found or access denied"), 1))
           ELSE Await(c, "existing")
    /\ UNCHANGED <<env, db, recon>>

\* const existing = await pool.query("SELECT id FROM recipes WHERE ...")
ConcExisting(c) ==
    /\ inflight[c].pc = "existing"
    /\ LET req == inflight[c].req
       IN  IF SelectRecipeByEventAndMeal(
                db, req.id, SqlParam(Get(req.recipe.obj, "idMeal"))) # {}
           THEN Respond(c, req,
                  Response(409,
                    ErrorBody("Recipe already added to this event"), 2))
           ELSE Await(c, "insert")
    /\ UNCHANGED <<env, recon>>
    /\ UNCHANGED db

\* the parameters of the iteration's INSERT
InsertColumns(req) ==
    IF env.version = "server"
    THEN InsertColumnsServer(req.id, req.user, req.recipe.obj)
    ELSE IF env.version = "part_000"
    THEN InsertColumns000(req.id, req.recipe.obj)
    ELSE IF env.version = "part_001"
    THEN InsertColumns001(req.id, req.recipe.obj)
    ELSE InsertColumns002(req.id, req.recipe.obj)

\* const insertResult = await pool.query("INSERT INTO recipes ...")
ConcInsert(c) ==
    /\ inflight[c].pc = "insert"
    /\ db.nextRecipeId <= MaxRecipeId
    /\ LET req == inflight[c].req
           ins == InsertRecipe(db, env, InsertColumns(req))
       IN  /\ db' = ins.db
           /\ IF ins.err # NULL
              THEN Respond(c, req, CatchAddRecipe(ins.err, 3))
              ELSE Await(c, IF env.version \in OldRoutes THEN "reread"
                            ELSE "getEvent")
    /\ UNCHANGED <<env, recon>>

\* getEventWithRecipes: const eventResult = await pool.query(...)
ConcGetEvent(c) ==
    /\ inflight[c].pc = "getEvent"
    /\ LET req == inflight[c].req
           eventRows == SelectEventByIdAndUser(db, req.id, req.user)
       IN  IF eventRows = {}
           THEN Respond(c, req, CatchAddRecipe(NULL, 4))
           ELSE /\ inflight' = [inflight EXCEPT
                                  ![c] = [pc |-> "getRecipes", req |-> req,
                                          event |-> CHOOSE e \in eventRows :
                                                      TRUE]]
                /\ UNCHANGED last
    /\ UNCHANGED <<env, db, recon>>

\* getEventWithRecipes: const recipesResult = await pool.query(...), and
\* res.json(updatedEvent)
ConcGetRecipes(c) ==
    /\ inflight[c].pc = "getRecipes"
    /\ LET req == inflight[c].req
           recipes ==
             IF env.helper = 1
             THEN {GetReconstruct(r).val :
                     r \in SelectRecipesByEventAndUser(
                             db, env.sidecarColumn, req.id, req.user)}
             ELSE {GetReconstruct2(r).val :
                     r \in SelectRecipesByEventAndUser2(db, req.id, req.user)}
       IN  Respond(c, req,
                   Response(200, EventView(inflight[c].event, recipes), 5))
    /\ UNCHANGED <<env, db, recon>>

\* part_001, part_002: the json_agg re-read and the response
ConcReread(c) ==
    /\ inflight[c].pc = "reread"
    /\ LET req == inflight[c].req
           rows == EventsJoinRecipes(db,
                     SelectEventByIdAndUser(db, req.id, req.user))
           queries == IF env.version = "part_001" THEN 4 ELSE 3
       IN  IF rows = {}
           THEN Respond(c, req,
                  IF env.version = "part_001"
                  THEN Response(500,
                         ErrorBody("Could not fetch updated event"), queries)
                  ELSE CatchAddRecipe(NULL, queries))
           ELSE Respond(c, req,
                  Response(200, CHOOSE v \in rows : TRUE, queries))
    /\ UNCHANGED <<env, db, recon>>

NextConc ==
    \/ (db.nextEventId <= MaxConcEventId
          /\ CreateEventReq({"Party"}, {"2025-06-01"}))
    \/ DeleteEventReq(ConcEventIds)
    \/ \E c \in Clients : ConcStart(c)
    \/ \E c \in Clients : ConcEventCheck(c)
    \/ \E c \in Clients : ConcExisting(c)
    \/ \E c \in Clients : ConcInsert(c)
    \/ \E c \in Clients : ConcGetEvent(c)
    \/ \E c \in Clients : ConcGetRecipes(c)
    \/ \E c \in Clients : ConcReread(c)

SpecConc == InitConc /\ [][NextConc]_vars

(***************************************************************************)
(* Claims.                                                                 *)
(***************************************************************************)
OwnedBy(u) == {e \in db.events : e.user_id = u}

\* the stored event a request names, when another user owns it
ForeignTarget(req, events) ==
    {e \in events : e.id = req.id /\ e.user_id # req.user}

\* C1 (list part): a list-events request by user U is answered with exactly
\* the stored events that U owns, each with its stored name and date.
ListReturnsOwnEvents ==
    last.req.op = "listEvents" =>
        /\ last.res.status = 200
        /\ {[id |-> v.id, name |-> v.name, date |-> v.date] :
                v \in last.res.body.events}
             = {[id |-> e.id, name |-> e.name, date |-> e.date] :
                e \in OwnedBy(last.req.user)}

\* C1 (mutation part): an update-event or delete-event request by user U
\* that names an event owned by another user changes no stored event.
ForeignRequestChangesNothing ==
    (/\ last'.req.op \in {"updateEvent", "deleteEvent"}
     /\ ForeignTarget(last'.req, db.events) # {})
    => db'.events = db.events

\* C1: In every state reachable by list/create/update/delete event requests
\* of any users, list-events by U returns exactly the events U owns, and an
\* update or delete by U of another user's event changes no stored event.
C1_OwnerIsolation ==
    [](ListReturnsOwnEvents) /\ [][ForeignRequestChangesNothing]_vars

\* C1 witness: an update or delete by a user other than the owner of the
\* stored event it names was handled, and the event is still stored.
C1_Witness_ForeignDelete ==
    /\ last.req.op \in {"updateEvent", "deleteEvent"}
    /\ ForeignTarget(last.req, db.events) # {}

\* C7: a create-event request, or an update-event request by the owner of
\* the event it names (src/server.js), whose body lacks the name or the date
\* is answered with a validation error (400) and inserts or modifies no
\* event row.
C7_MissingFieldsRejected ==
    [][(/\ env.version = "server"
        /\ \/ last'.req.op = "createEvent"
           \/ /\ last'.req.op = "updateEvent"
              /\ SelectEventByIdAndUser(db, last'.req.id, last'.req.user) # {}
        /\ (~Truthy(last'.req.name) \/ ~Truthy(last'.req.date)))
       => (last'.res.status = 400 /\ db'.events = db.events)]_vars

\* the request handled by this step is an add-recipe request
AddRecipeStep == last'.req.op = "addRecipe"

\* the stored recipes of event id with external meal id mealId
StoredRecipe(recipes, id, mealId) ==
    {r \in recipes : r.event_id = id /\ r.meal_id = mealId}

RecipesOfEvent(recipes, id) == {r \in recipes : r.event_id = id}

\* the caller of the request owns the stored event that the request names
CallerOwnsTarget(req, events) ==
    \E e \in events : e.id = req.id /\ e.user_id = req.user

\* C3 (first request): the owner adds a valid recipe M that event E does not
\* hold yet: the answer is 200, the event E, and its recipes contain M.
FirstAddSucceeds ==
    (/\ AddRecipeStep
     /\ env.version = "server"
     /\ ~InvalidRecipe(last'.req.recipe)
     /\ CallerOwnsTarget(last'.req, db.events)
     /\ StoredRecipe(db.recipes, last'.req.id,
                     last'.req.recipe.obj.idMeal) = {})
    => /\ last'.res.status = 200
       /\ last'.res.body.id = last'.req.id
       /\ \E r \in last'.res.body.recipes :
            r.idMeal = last'.req.recipe.obj.idMeal

\* C3 (second request): the same add-recipe request right after a successful
\* one is answered 409 and leaves the recipes of E as they were.
SecondAddConflicts ==
    (/\ AddRecipeStep
     /\ env.version = "server"
     /\ last.req = last'.req
     /\ last.res.status = 200)
    => /\ last'.res.status = 409
       /\ Cardinality(RecipesOfEvent(db'.recipes, last'.req.id))
            = Cardinality(RecipesOfEvent(db.recipes, last'.req.id))

\* C3: When the owner of event E issues two add-recipe requests one after the
\* other with the same external meal id M, the first succeeds and answers
\* with event E whose recipes contain M, the second is answered 409, and E
\* holds as many recipes after the second request as after the first.
C3_AddTwice == [][FirstAddSucceeds /\ SecondAddConflicts]_vars

\* C3 witness: the owner's add-recipe was answered 409 for a recipe that the
\* event holds once.
C3_Witness_Conflict ==
    /\ env.version = "server"
    /\ last.req.op = "addRecipe"
    /\ last.res.status = 409
    /\ CallerOwnsTarget(last.req, db.events)
    /\ Cardinality(StoredRecipe(db.recipes, last.req.id,
                                last.req.recipe.obj.idMeal)) = 1

C5_ForeignAddNotFound ==
    [][(/\ AddRecipeStep
        /\ ~InvalidRecipe(last'.req.recipe)
        /\ ~CallerOwnsTarget(last'.req, db.events))
       => (last'.res.status = 404 /\ db'.recipes = db.recipes)]_vars

\* C6: An add-recipe request whose body has no recipe, or whose recipe lacks
\* the external meal id or the title, is answered 400 before any database
\* query is issued, and the stored recipes are unchanged.
C6_InvalidRecipeRejected ==
    [][(AddRecipeStep /\ InvalidRecipe(last'.req.recipe))
       => (/\ last'.res.status = 400
           /\ last'.res.queries = 0
           /\ db'.recipes = db.recipes)]_vars

\* C8 (enclosing response): the stored rows carry a sidecar that is absent,
\* or already parsed by the driver, or a string; list-events is answered 200
\* with every event of the caller, each with all of its stored recipes.
C8_ListSurvivesAnySidecar ==
    last.req.op = "listEvents" =>
        /\ last.res.status = 200
        /\ \A e \in OwnedBy(last.req.user) :
             \E v \in last.res.body.events :
                /\ v.id = e.id
                /\ {r.id : r \in v.recipes}
                     = {r.id : r \in RecipesOfEvent(db.recipes, e.id)}

\* the sidecar of the row is JSON (parsed by the driver, or a valid text)
SidecarParses(row) ==
    \/ row.recipe_data.kind = "object"
    \/ row.recipe_data.kind = "text" /\ row.recipe_data.valid

\* the value the sidecar of the row holds under key (undefined when none)
SidecarValue(row, key) ==
    IF SidecarParses(row) THEN Get(row.recipe_data.obj, key) ELSE UNDEFINED

\* the reconstruction did not raise and its record has value under key
Yields(result, key, value) == result.ok /\ result.out.val[key] = value

\* C9 for one read path, one column and the output key made from it
SidecarFillsUnknown(result, column, key) ==
    /\ (/\ Truthy(SidecarValue(recon.row, key))
        /\ SidecarValue(recon.row, key) # "Unknown"
        /\ recon.row[column] = "Unknown")
       => Yields(result, key, SidecarValue(recon.row, key))
    /\ (recon.row.recipe_data.kind = "null" /\ Truthy(recon.row[column]))
       => Yields(result, key, recon.row[column])

\* C9: When the sidecar supplies a category (or area) other than "Unknown"
\* and the column stores "Unknown", the reconstructed category (or area) is
\* the sidecar's; when the sidecar is absent and the column stores a
\* non-empty value, it is the column's.  Both read paths.
C9_SidecarFillsUnknown ==
    \A result \in {recon.list, recon.get} :
        result.run =>
            /\ SidecarFillsUnknown(result, "category", "strCategory")
            /\ SidecarFillsUnknown(result, "area", "strArea")

\* C10 for one read path, one column and the output key made from it
ColumnBeatsUnknown(result, column, key) ==
    (/\ SidecarValue(recon.row, key) \in {"Unknown", NULL}
     /\ Truthy(recon.row[column])
     /\ recon.row[column] # "Unknown")
    => Yields(result, key, recon.row[column])

\* C10: When the sidecar parses and supplies category (or area) "Unknown" or
\* null while the column stores a non-empty value other than "Unknown", the
\* reconstructed category (or area) is the column's.  Each read path, on the
\* sidecar as that path reads it (a text for GET /events, an object for the
\* first declaration of getEventWithRecipes).
C10_ColumnBeatsUnknown ==
    /\ (recon.list.run /\ recon.row.recipe_data.kind = "text")
       => /\ ColumnBeatsUnknown(recon.list, "category", "strCategory")
          /\ ColumnBeatsUnknown(recon.list, "area", "strArea")
    /\ (recon.get.run /\ recon.row.recipe_data.kind = "object")
       => /\ ColumnBeatsUnknown(recon.get, "category", "strCategory")
          /\ ColumnBeatsUnknown(recon.get, "area", "strArea")

\* C2: In every reachable state, also those reached by interleaving the
\* queries of concurrent add-recipe requests, no event holds two stored
\* recipes with the same external meal id.
C2_UniqueMealPerEvent ==
    \A r1, r2 \in db.recipes :
        (r1.event_id = r2.event_id /\ r1.meal_id = r2.meal_id
           /\ r1.meal_id # NULL)
        => r1 = r2

\* C11 for one read path, one column and the output key made from it
SidecarFieldWins(result, column, key) ==
    /\ Truthy(SidecarValue(recon.row, key))
         => Yields(result, key, SidecarValue(recon.row, key))
    /\ ~Truthy(SidecarValue(recon.row, key))
         => Yields(result, key, Or(recon.row[column], ""))

\* C11 for one read path and the four fields
SidecarFieldsWin(result) ==
    /\ SidecarFieldWins(result, "tags", "strTags")
    /\ SidecarFieldWins(result, "youtube_url", "strYoutube")
    /\ SidecarFieldWins(result, "source_url", "strSource")
    /\ SidecarFieldWins(result, "instructions", "strInstructions")

\* C11: When the sidecar parses, each of tags, video link, source link and
\* instructions of the reconstructed record is the sidecar's value whenever
\* that value is truthy, whatever the column stores, and otherwise the
\* column's value or the empty string.  Each read path, on the sidecar as
\* that path reads it (a text for GET /events, an object for the first
\* declaration of getEventWithRecipes).
C11_SidecarFieldsWin ==
    /\ (recon.list.run /\ recon.row.recipe_data.kind = "text")
       => SidecarFieldsWin(recon.list)
    /\ (recon.get.run /\ recon.row.recipe_data.kind = "object")
       => SidecarFieldsWin(recon.get)

\* the per-slot ingredient / measure keys that a sidecar of SlotObjects or
\* a reconstructed record can have (strIngredients, the derived string, is
\* not one of them)
SlotKeys == {"strIngredient1", "strMeasure1", "strIngredient2"}

\* C12 for one read path
TruthySlotsCopied(result) ==
    /\ result.ok
    /\ \A k \in SlotKeys :
         /\ (k \in DOMAIN result.out.val) = Truthy(SidecarValue(recon.row, k))
         /\ k \in DOMAIN result.out.val
              => result.out.val[k] = SidecarValue(recon.row, k)

\* C12: When the sidecar parses, the reconstructed record has an ingredient
\* or measure key exactly when the sidecar has that key with a truthy
\* value, and then with the sidecar's value; keys whose sidecar value is
\* the empty string or null are not in the record.  Each read path, on the
\* sidecar as that path reads it.
C12_TruthySlotsCopied ==
    /\ (recon.list.run /\ recon.row.recipe_data.kind = "text")
       => TruthySlotsCopied(recon.list)
    /\ (recon.get.run /\ recon.row.recipe_data.kind = "object")
       => TruthySlotsCopied(recon.get)

\* C13 for one read path: the properties that come from the columns alone
ColumnsKept(result) ==
    LET out == result.out.val
    IN  /\ out.strIngredients = recon.row.ingredients
        /\ out.id = recon.row.id
        /\ out.idMeal = recon.row.meal_id
        /\ out.strMeal = recon.row.title
        /\ out.strMealThumb = recon.row.image
        /\ out.custom = recon.row.custom

\* C13: For every row and every sidecar, also one that has a key
\* strIngredients or keys named id, idMeal, strMeal, strMealThumb, custom,
\* the record that a read path reconstructs has the ingredients column as
\* its strIngredients and the row's id, meal_id, title, image and custom.
C13_ColumnsKept ==
    \A result \in {recon.list, recon.get, recon.get2} :
        (result.run /\ result.ok) => ColumnsKept(result)

\* C13 witness: GET /events or getEventWithRecipes reconstructed a row whose
\* sidecar, as that path reads it, has its own strIngredients and idMeal,
\* and the record has the column's ingredients.
C13_Witness_SidecarIngredients ==
    /\ SidecarParses(recon.row)
    /\ {"strIngredients", "idMeal", "strIngredient1"}
          \subseteq DOMAIN recon.row.recipe_data.obj
    /\ recon.row.ingredients = "200g Flour"
    /\ \/ recon.list.run /\ recon.list.ok
             /\ recon.row.recipe_data.kind = "text"
             /\ recon.list.out.val.strIngredients = "200g Flour"
       \/ recon.get.run /\ recon.row.recipe_data.kind = "object"
             /\ recon.get.out.val.strIngredients = "200g Flour"

\* the measure of a slot is absent, null or blank
NoMeasure(measure) == measure \in {UNDEFINED, NULL} \/ Trim(measure) = ""

\* the ingredient name of a slot is non-empty after trimming
NamedSlot(ingredient) ==
    ingredient \notin {UNDEFINED, NULL} /\ Trim(ingredient) # ""

\* C14: the entries required of slots i..20 of payload o, in order
RECURSIVE RequiredEntries(_, _)
RequiredEntries(o, i) ==
    IF i > 20 THEN <<>>
    ELSE LET ingredient == Get(o, "strIngredient" \o ToString(i))
             measure == Get(o, "strMeasure" \o ToString(i))
         IN  (IF ~NamedSlot(ingredient) THEN <<>>
              ELSE IF NoMeasure(measure) THEN <<Trim(ingredient)>>
              ELSE <<Trim(measure) \o " " \o Trim(ingredient)>>)
             \o RequiredEntries(o, i + 1)

\* C14: The ingredients string that add-recipe persists is, for slots 1 to
\* 20 in order, the entries of the slots whose ingredient name is non-empty
\* after trimming, each the trimmed measure, a space and the trimmed name,
\* or the trimmed name alone when the measure is absent, null or blank,
\* joined with ", ".  Both the loop of src/server.js and of part_000.
C14_IngredientsString ==
    /\ recon.server.run
         => recon.server.text = Join(RequiredEntries(recon.recipe, 1))
    /\ recon.part000.run
         => recon.part000.text = Join(RequiredEntries(recon.recipe, 1))

\* the store d as it would be had event id never been created
WithoutEvent(d, id) ==
    [d EXCEPT !.events = {e \in @ : e.id # id},
              !.recipes = {r \in @ : r.event_id # id}]

\* what the caller sees of a response
Visible(res) == [status |-> res.status, body |-> res.body]

\* C15 for one caller u and one event id: each route answers on the store
\* as on the store without that event
ForeignLooksAbsent(u, id) ==
    LET absent == WithoutEvent(db, id)
    IN  /\ Visible(UpdateEventHandler(env.version, db, env.notNull, u, id,
                                       "Dinner", "2025-06-01").res)
             = Visible(UpdateEventHandler(env.version, absent, env.notNull,
                                          u, id, "Dinner", "2025-06-01").res)
        /\ Visible(DeleteEventHandler(env.version, db, u, id).res)
             = Visible(DeleteEventHandler(env.version, absent, u, id).res)
        /\ \A recipe \in ValidBodies :
             Visible(AddRecipeHandler(env, db, u, id, recipe).res)
               = Visible(AddRecipeHandler(env, absent, u, id, recipe).res)

\* C15: In every reachable state, an update-event, delete-event or
\* add-recipe request by user U that names an event owned by another user
\* gets the response (status and body) that it would get if that event did
\* not exist, whatever recipes the event holds.
C15_ForeignLooksAbsent ==
    \A u \in Users, id \in EventIds :
        ForeignTarget([id |-> id, user |-> u], db.events) # {}
            => ForeignLooksAbsent(u, id)

\* the handler of client c found the duplicate by its own lookup, or its
\* INSERT was rejected by the unique index, and it responds in this step
RejectedAsDuplicate(c) ==
    /\ inflight'[c] = Idle
    /\ \/ /\ inflight[c].pc = "existing"
          /\ SelectRecipeByEventAndMeal(
                db, inflight[c].req.id,
                SqlParam(Get(inflight[c].req.recipe.obj, "idMeal"))) # {}
       \/ /\ inflight[c].pc = "insert"
          /\ InsertRecipe(db, env, InsertColumns(inflight[c].req)).err
               = "23505"

\* C16: Whenever an add-recipe request (routes of src/server.js and of
\* src/unnamed/part_000) is rejected because the event holds the same
\* external meal id already, by the handler's lookup or by the unique index
\* after a concurrent request inserted first, the response is 409.
C16_DuplicateIsConflict ==
    [][\A c \in Clients :
         (env.version \in {"server", "part_000"} /\ RejectedAsDuplicate(c))
            => last'.res.status = 409]_vars

\* C17: A remove-recipe request by user U for event E and meal id M deletes
\* the stored recipes of E with meal id M when U owns E and leaves every
\* other stored recipe as it was; when U does not own E the stored recipes
\* are unchanged.
C17_RemoveOnlyOwn ==
    [][last'.req.op = "removeRecipe" =>
         IF CallerOwnsTarget(last'.req, db.events)
         THEN db'.recipes = db.recipes
                \ StoredRecipe(db.recipes, last'.req.id, last'.req.mealId)
         ELSE db'.recipes = db.recipes]_vars

\* the events that the last response carries, when it is a successful
\* response of a route that answers with events
EventsCarried ==
    IF last.res.status \notin {200, 201} THEN {}
    ELSE IF last.req.op = "listEvents" THEN last.res.body.events
    ELSE IF last.req.op \in {"createEvent", "updateEvent", "addRecipe"}
    THEN {last.res.body}
    ELSE {}

\* an event of a response has title equal to name, and a recipes field
TitledWithRecipes(v) ==
    /\ {"title", "name", "recipes"} \subseteq DOMAIN v
    /\ v.title = v.name

\* C18: Every successful response that carries an event (each element of
\* list-events, the bodies of create-event, update-event and add-recipe)
\* has a title equal to its name and has a recipes field.
C18_TitleNameRecipes == \A v \in EventsCarried : TitledWithRecipes(v)

\* the request failed in the store with an error that its catch block does
\* not classify (part_000 answers 409 and 400 to SQLSTATE 23505 and 23503)
UnclassifiedFailure ==
    /\ "error" \in DOMAIN last.req
    /\ ~(/\ env.version = "part_000"
         /\ last.req.op = "addRecipe"
         /\ last.req.error.code \in {"23505", "23503"})

\* the response body holds the message or the stack of the storage error
CarriesDiagnostics(body, error) ==
    \E k \in DOMAIN body : body[k] \in {error.message, error.stack}

\* C19: A request whose storage query fails with an unclassified error is
\* answered 500, and the body carries the storage error's message or stack
\* only when NODE_ENV is not "production".
C19_DiagnosticsOutsideProduction ==
    UnclassifiedFailure =>
        /\ last.res.status = 500
        /\ CarriesDiagnostics(last.res.body, last.req.error)
             => env.nodeEnv # "production"

\* every stored recipe carries the user id of the event it is attached to
RecipeOwnerIsEventOwner ==
    \A r \in db.recipes :
        \E ev \in db.events : ev.id = r.event_id /\ ev.user_id = r.user_id

\* a successful add-recipe answers with the recipe it has just inserted
RereadReturnsInserted ==
    (last.req.op = "addRecipe" /\ last.res.status = 200)
        => \E v \in last.res.body.recipes :
               v.idMeal = last.req.recipe.obj.idMeal

\* C20: In every reachable state of server.js and of part_000 every stored
\* recipe's user id equals the owner of its event, and the re-read of a
\* successful add-recipe (by event id and user id) returns the recipe that
\* the request inserted.
C20_RecipeOwnerMatchesEvent ==
    env.version \in {"server", "part_000"}
        => RecipeOwnerIsEventOwner /\ RereadReturnsInserted

\* the recipe records of the meal just added, in the body add-recipe answered
AddedRecords ==
    {v \in last.res.body.recipes : v.idMeal = last.req.recipe.obj.idMeal}

\* a successful add-recipe of server.js is followed by list-events of the
\* same user
ListAfterAdd ==
    /\ env.version = "server"
    /\ last.req.op = "addRecipe"
    /\ last.res.status = 200
    /\ last'.req.op = "listEvents"
    /\ last'.req.user = last.req.user

\* the list succeeds and lists the event with the record add-recipe returned
ListShowsAddedRecord ==
    /\ last'.res.status = 200
    /\ \E ev \in last'.res.body.events :
           /\ ev.id = last.req.id
           /\ AddedRecords # {}
           /\ AddedRecords \subseteq ev.recipes

\* C21: The list-events read path and getEventWithRecipes reconstruct the
\* same record from the same stored row: after a successful add-recipe, a
\* following list-events by the same user succeeds and lists that event
\* with the recipe record that add-recipe returned.
C21_ListMatchesGet == [][ListAfterAdd => ListShowsAddedRecord]_vars

====
